---- MODULE Spec2Model ----
(***************************************************************************)
(* Model of PixooRadar: the poll loop of display_flight_data_pizoo.main,   *)
(* the animation build _build_and_send_animation with its drawing helpers  *)
(* and formatters, and the flight record produced by                       *)
(* FlightData.get_closest_flight_data.                                     *)
(*                                                                         *)
(* Python values are modelled as tagged records: a dict key that is absent *)
(* is Missing, a key holding None is None, any other value v is Val(v).    *)
(* Python strings are sequences of one-character strings, so that slicing, *)
(* len() and str() are computed and not assumed.                           *)
(***************************************************************************)
EXTENDS Integers, Sequences, FiniteSets, TLC

\* ------------------------------------------------------------------ bounds
\* number of distinct aircraft identifiers the fetcher can return
NumAircraft == 2
\* length of the longest text value the fetcher returns for a text field
MaxTextLen == 8

\* widest container handed to _center_x
MaxWidth == 70

\* --------------------------------------------------------------- constants
PLANE_WIDTH == 5
ROUTE_START == 21
ROUTE_END == 43
ROUTE_WIDTH == ROUTE_END - ROUTE_START
AIRPLANE_CYCLE == ROUTE_WIDTH + PLANE_WIDTH
TOTAL_FRAMES == AIRPLANE_CYCLE
ANIMATION_FRAME_SPEED == 300
FONT_CHAR_WIDTH == 6

COLOR_TEXT == "#FFFF00"
COLOR_BOX == "#454545"
COLOR_ROUTE_LINE == "#666666"
COLOR_PLANE == "#FFFFFF"
COLOR_SEPARATOR == "#555555"
COLOR_LABEL == "#999999"

\* ------------------------------------------------------------ Python values
Missing == [tag |-> "missing"]
None == [tag |-> "null"]
Val(v) == [tag |-> "val", v |-> v]

Min2(a, b) == IF a < b THEN a ELSE b
Max2(a, b) == IF a > b THEN a ELSE b

\* s[:n]
Take(s, n) == SubSeq(s, 1, Min2(n, Len(s)))

\* dict.get(key, default): the default only replaces an absent key
Get(d, key, default) == IF d[key].tag = "missing" THEN default ELSE d[key]

\* str(x) of a text-or-None value
str(x) == IF x.tag = "null" THEN <<"N", "o", "n", "e">> ELSE x.v

\* x or alt, for a text-or-None value (None and "" are falsy)
OrStr(x, alt) == IF x.tag = "null" \/ x.v = <<>> THEN alt ELSE x

\* x or alt, for an int-or-None value (None and 0 are falsy)
OrInt(x, alt) == IF x.tag = "null" \/ x.v = 0 THEN alt ELSE x

DigitChar == <<"0", "1", "2", "3", "4", "5", "6", "7", "8", "9">>

RECURSIVE Digits(_)
Digits(n) == IF n < 10 THEN <<DigitChar[n + 1]>>
             ELSE Digits(n \div 10) \o <<DigitChar[(n % 10) + 1]>>

\* f"{n}" of an int
FormatD(n) == IF n < 0 THEN <<"-">> \o Digits(0 - n) ELSE Digits(n)

RECURSIVE Zeros(_)
Zeros(k) == IF k <= 0 THEN <<>> ELSE <<"0">> \o Zeros(k - 1)

\* f"{n:03d}" of an int: zero padding up to a total width of 3, sign included
Format03d(n) ==
    IF n < 0 THEN <<"-">> \o Zeros(2 - Len(Digits(0 - n))) \o Digits(0 - n)
    ELSE Zeros(3 - Len(Digits(n))) \o Digits(n)

\* ------------------------------------------------------- text measurement
_measure_text_width(text) == Max2(1, Len(text) * FONT_CHAR_WIDTH - 1)

\* mutant: the result is not floored at 0
_center_x_nomax(rect_width, text) ==
    (rect_width - _measure_text_width(text)) \div 2

_center_x(rect_width, text) ==
    Max2(0, (rect_width - _measure_text_width(text)) \div 2)

\* mutant: the ground threshold includes 1000 ft
_format_flight_level_le(altitude_ft) ==
    IF altitude_ft.tag = "null" \/ altitude_ft.v <= 1000
    THEN <<"G", "N", "D">>
    ELSE <<"F", "L">> \o Format03d(altitude_ft.v \div 100)

\* mutant: a falsy heading (0) is taken for an absent one
_format_heading_falsy(heading) ==
    IF heading.tag = "null" \/ heading.v = 0
    THEN <<"-", "-", "-">>
    ELSE Format03d(heading.v)

\* -------------------------------------------------------------- formatters
_format_flight_level(altitude_ft) ==
    IF altitude_ft.tag = "null" \/ altitude_ft.v < 1000
    THEN <<"G", "N", "D">>
    ELSE <<"F", "L">> \o Format03d(altitude_ft.v \div 100)

_format_speed(speed_kts) ==
    IF speed_kts.tag = "null"
    THEN <<"-", "-", "-", "K", "T">>
    ELSE FormatD(speed_kts.v) \o <<"K", "T">>

_format_heading(heading) ==
    IF heading.tag = "null"
    THEN <<"-", "-", "-">>
    ELSE Format03d(heading.v)

\* ------------------------------------------------------------ draw calls
\* pizzoo.draw_rectangle(xy=(x, y), width, height, color, filled=True)
Rect(x, y, width, height, color) ==
    [x |-> x, y |-> y, width |-> width, height |-> height, color |-> color]

\* pizzoo.draw_text(text, xy=(x, y), font=FONT_NAME, color)
Text(text, x, y, color) == [text |-> text, x |-> x, y |-> y, color |-> color]

\* pizzoo.draw_image(logo, xy=(0, 0), size=(64, 20))
Image(path) == [path |-> path, x |-> 0, y |-> 0, width |-> 64, height |-> 20]

\* the canvas after pizzoo.cls()
Blank == [images |-> {}, texts |-> {}, rects |-> {}]

Over(c1, c2) == [images |-> c1.images \cup c2.images,
                 texts |-> c1.texts \cup c2.texts,
                 rects |-> c1.rects \cup c2.rects]

\* mutant: the right edge of the clip window is taken as inclusive
_draw_airplane_icon_incl(x, y, clip_left, clip_right, color) ==
    [Blank EXCEPT !.rects =
        {Rect(px, y + 2, 1, 1, color) :
            px \in {q \in x..(x + 4) : clip_left <= q /\ q <= clip_right}}
        \cup (IF clip_left <= x + 2 /\ x + 2 <= clip_right
              THEN {Rect(x + 2, y, 1, 5, color)} ELSE {})
        \cup (IF clip_left <= x /\ x <= clip_right
              THEN {Rect(x, y + 1, 1, 3, color)} ELSE {})]

_draw_airplane_icon(x, y, clip_left, clip_right, color) ==
    [Blank EXCEPT !.rects =
        {Rect(px, y + 2, 1, 1, color) :
            px \in {q \in x..(x + 4) : clip_left <= q /\ q < clip_right}}
        \cup (IF clip_left <= x + 2 /\ x + 2 < clip_right
              THEN {Rect(x + 2, y, 1, 5, color)} ELSE {})
        \cup (IF clip_left <= x /\ x < clip_right
              THEN {Rect(x, y + 1, 1, 3, color)} ELSE {})]

_draw_separator_line(y, style) ==
    [Blank EXCEPT !.rects =
        IF style = "solid" THEN {Rect(0, y, 64, 1, COLOR_SEPARATOR)}
        ELSE IF style = "dashed"
        THEN {Rect(x, y, 2, 1, COLOR_SEPARATOR) :
                x \in {q \in 0..63 : q % 4 = 0}}
        ELSE {}]

\* a value is truthy when it is neither None nor the empty string
Truthy(x) == x.tag = "val" /\ x.v # <<>>

\* the cap of the airline-name fallback (airline_name[:10])
AIRLINE_CAP == 10

_draw_top_section(logo, origin, destination, airline_name, y_route) ==
    LET name == Take(airline_name, AIRLINE_CAP)
        banner ==
            IF Truthy(logo)
            THEN [Blank EXCEPT !.images = {Image(logo.v)}]
            ELSE IF airline_name # <<>>
            THEN [Blank EXCEPT !.texts =
                    {Text(name, _center_x(64, name), 7, "#FFFFFF")}]
            ELSE Blank
        route ==
            [Blank EXCEPT
                !.rects = {Rect(0, 21, 64, 11, COLOR_BOX)}
                    \cup {Rect(i, y_route + 6, 2, 1, COLOR_ROUTE_LINE) :
                            i \in {q \in ROUTE_START..(ROUTE_END - 1) :
                                      (q - ROUTE_START) % 3 = 0}},
                !.texts = {Text(origin, 2, y_route, COLOR_TEXT),
                           Text(destination,
                                62 - _measure_text_width(destination),
                                y_route, COLOR_TEXT)}]
    IN Over(Over(banner, _draw_separator_line(20, "dashed")), route)

_draw_label_value(label, value, y) ==
    LET full_text == label \o <<" ">> \o value
        x_start == _center_x(64, full_text)
        value_x == x_start + (Len(label) + 1) * 6
    IN [Blank EXCEPT !.texts = {Text(label, x_start, y, COLOR_LABEL),
                                Text(value, value_x, y, COLOR_TEXT)}]

_draw_info_page(upper_pair, lower_pair) ==
    Over(Over(Over(Over(
        [Blank EXCEPT !.rects = {Rect(0, 33, 64, 31, COLOR_BOX)}],
        _draw_separator_line(32, "dashed")),
        _draw_label_value(upper_pair[1], upper_pair[2], 34)),
        _draw_separator_line(48, "dashed")),
        _draw_label_value(lower_pair[1], lower_pair[2], 50))

\* --------------------------------------------------- the flight record
\* The keys of the record that _build_and_send_animation and main read.
\* get_closest_flight_data sets every key of its dict literal (the value is
\* None when the API has no data) and sets airline_logo_path only when a
\* logo file exists.
LongChars == <<"A", "B", "C", "D", "E", "F", "G", "H",
               "I", "J", "K", "L", "M", "N", "O", "P">>

LongText(n) == SubSeq(LongChars, 1, n)

Ids == {Val(i) : i \in 1..NumAircraft}

BaseRecord ==
    [icao24 |-> Val(1),
     flight_number |-> Val(<<"F", "R", "2", "2", "6", "3">>),
     registration |-> Val(<<"D", "-", "A", "B", "C", "D">>),
     aircraft_type_icao |-> Val(<<"A", "3", "2", "0">>),
     airline |-> Val(<<"R", "y", "a", "n", "a", "i", "r">>),
     origin |-> Val(<<"B", "E", "R">>),
     destination |-> Val(<<"M", "U", "C">>),
     altitude |-> Val(3400),
     ground_speed |-> Val(450),
     heading |-> Val(90),
     airline_logo_path |-> Missing]

\* absent keys are offered only where the caller of the build may omit them
Absent(allow) == IF allow THEN {Missing} ELSE {}

TextFields == {"flight_number", "registration", "aircraft_type_icao",
               "origin", "destination"}

TextGroup(allow) ==
    LET opts == {None, Val(LongText(MaxTextLen))} \cup Absent(allow)
    IN {[BaseRecord EXCEPT !.flight_number = f, !.registration = r,
                           !.aircraft_type_icao = a, !.origin = o,
                           !.destination = d] :
            f \in opts, r \in opts, a \in opts, o \in opts, d \in opts}

LengthGroup ==
    {[BaseRecord EXCEPT ![k] = Val(LongText(n))] :
        k \in TextFields \cup {"airline"}, n \in 0..(MaxTextLen + 3)}

Altitudes == {0, 999, 1000, 3400, 3500, 10000, 100000}
Speeds == {0, 250, 450}
Headings == {0, 7, 90, 270}

NumericGroup(allow) ==
    {[BaseRecord EXCEPT !.altitude = a, !.ground_speed = s, !.heading = h] :
        a \in {None} \cup {Val(n) : n \in Altitudes} \cup Absent(allow),
        s \in {None} \cup {Val(n) : n \in Speeds} \cup Absent(allow),
        h \in {None} \cup {Val(n) : n \in Headings} \cup Absent(allow)}

LogoPath == <<"l", "o", "g", "o", ".", "p", "n", "g">>

BannerGroup(allow) ==
    {[BaseRecord EXCEPT !.airline_logo_path = l, !.airline = a] :
        l \in {Missing, Val(LogoPath)},
        a \in {None, Val(<<>>), BaseRecord.airline,
               Val(LongText(MaxTextLen + 3))} \cup Absent(allow)}

Contents(allow) ==
    TextGroup(allow) \cup LengthGroup \cup NumericGroup(allow)
        \cup BannerGroup(allow)

\* the dicts get_closest_flight_data returns
FetchedRecords ==
    {[c EXCEPT !.icao24 = i] : c \in Contents(FALSE), i \in {None} \cup Ids}

\* the dicts a caller may hand to _build_and_send_animation
AllDicts == Contents(TRUE)

NoData == [tag |-> "null"]

\* ------------------------------------------- _build_and_send_animation
\* the locals computed before the frame loop
Logo(d) == Get(d, "airline_logo_path", Val(<<>>))
AirlineName(d) == str(OrStr(Get(d, "airline", Val(<<>>)), Val(<<>>)))
Origin(d) == Take(str(Get(d, "origin", Val(<<"-", "-", "-">>))), 3)
Destination(d) == Take(str(Get(d, "destination", Val(<<"-", "-", "-">>))), 3)
FlightNum(d) ==
    Take(str(Get(d, "flight_number", Val(<<"-", "-", "-", "-">>))), 7)
Aircraft(d) ==
    Take(str(Get(d, "aircraft_type_icao", Val(<<"-", "-", "-", "-">>))), 4)
Registration(d) ==
    Take(str(Get(d, "registration",
                 Val(<<"-", "-", "-", "-", "-", "-">>))), 7)
Altitude(d) == OrInt(Get(d, "altitude", Val(0)), Val(0))
Speed(d) == OrInt(Get(d, "ground_speed", Val(0)), Val(0))
Heading(d) == Get(d, "heading", None)

InfoPages(d) ==
    << << <<<<"F", "L", "T">>, FlightNum(d)>>,
          <<<<"A", "L", "T">>, _format_flight_level(Altitude(d))>> >>,
       << <<<<"T", "Y", "P", "E">>, Aircraft(d)>>,
          <<<<"R", "E", "G">>, Registration(d)>> >>,
       << <<<<"S", "P", "D">>, _format_speed(Speed(d))>>,
          <<<<"H", "D", "G">>, _format_heading(Heading(d))>> >> >>

Y_ROUTE == 20

NoLocals == [scope |-> "none"]

Prologue(d) ==
    [scope |-> "build",
     logo |-> Logo(d),
     airline_name |-> AirlineName(d),
     origin |-> Origin(d),
     destination |-> Destination(d),
     info_pages |-> InfoPages(d),
     frames_per_page |-> TOTAL_FRAMES \div Len(InfoPages(d)),
     frame_idx |-> 0]

\* mutant: the icon starts at the left edge of the window, not left of it
PlaneX_noenter(frame_idx) == ROUTE_START + (frame_idx % AIRPLANE_CYCLE)

PlaneX(frame_idx) == ROUTE_START - PLANE_WIDTH + (frame_idx % AIRPLANE_CYCLE)

\* mutant: the pages alternate frame by frame
PageIdx_mod(frame_idx, frames_per_page, n_pages) == frame_idx % n_pages

PageIdx(frame_idx, frames_per_page, n_pages) ==
    Min2(frame_idx \div frames_per_page, n_pages - 1)

\* range(TOTAL_FRAMES) still has an element for frame_idx
InLoop(frame_idx) == frame_idx < TOTAL_FRAMES

\* mutant: add_frame after every frame, the last included
NeedsAddFrame_always(frame_idx) == frame_idx < TOTAL_FRAMES

\* the guard of pizzoo.add_frame()
NeedsAddFrame(frame_idx) == frame_idx < TOTAL_FRAMES - 1

TopOf(l) ==
    _draw_top_section(l.logo, l.origin, l.destination, l.airline_name, Y_ROUTE)

IconOf(l) ==
    _draw_airplane_icon(PlaneX(l.frame_idx), Y_ROUTE + 4,
                        ROUTE_START, ROUTE_END, COLOR_PLANE)

InfoOf(l) ==
    LET page == l.info_pages[PageIdx(l.frame_idx, l.frames_per_page,
                                     Len(l.info_pages)) + 1]
    IN _draw_info_page(page[1], page[2])

\* one iteration of the frame loop on a cleared canvas
FrameOf(l) == Over(Over(TopOf(l), IconOf(l)), InfoOf(l))

\* mutant: a handler around the frame loop swallows the exception and the
\* function goes on to pizzoo.render
OnDrawError_swallowed == "render"

\* an exception raised inside the frame loop is caught neither by
\* _build_and_send_animation nor by main: the process ends
OnDrawError == "terminated"

\* an exception raised by pizzoo.render is not caught either
OnRenderError == "terminated"

\* ------------------------------------------------------------------ state
VARIABLES
    pc,                 \* "poll": at the head of main's loop; "build": in the
                        \* frame loop; "render": before pizzoo.render;
                        \* "terminated": an uncaught exception ended main
    current_flight_id,  \* main's current_flight_id
    data,               \* the record being built (NoData outside a build)
    locals,             \* the locals of _build_and_send_animation
    canvas,             \* pizzoo's current frame
    buffer_len,         \* number of frames in pizzoo's buffer
    cls_calls,          \* pizzoo.cls calls of the latest build
    add_frame_calls,    \* pizzoo.add_frame calls of the latest build
    render_calls,       \* pizzoo.render calls of the latest build
    rendered,           \* the frame set of the latest pizzoo.render call
    exc,                \* the exception that ended main, if any
    last_print,         \* which message main printed last
    run,                \* the current run of polls that returned one identifier
    sent_ids            \* identifiers whose animation was built and sent

vars == <<pc, current_flight_id, data, locals, canvas, buffer_len, cls_calls,
          add_frame_calls, render_calls, rendered, exc, last_print, run,
          sent_ids>>

NoExc == [kind |-> "none"]
NotRendered == [frames |-> 0, frame_speed |-> 0]

\* == on identifiers (str or None)
PyEq(a, b) == a.tag = b.tag /\ (a.tag = "val" => a.v = b.v)

\* the run of consecutive data polls with one identifier, after a poll of id
NextRun(id, built) ==
    LET same == run.open /\ PyEq(run.id, id)
        before == IF same THEN run.builds ELSE 0
    IN [open |-> TRUE, id |-> id,
        builds |-> before + (IF built THEN 1 ELSE 0)]

Init ==
    /\ pc = "poll"
    /\ current_flight_id = None
    /\ data = NoData
    /\ locals = NoLocals
    /\ canvas = Blank
    /\ buffer_len = 1
    /\ cls_calls = 0
    /\ add_frame_calls = 0
    /\ render_calls = 0
    /\ rendered = NotRendered
    /\ exc = NoExc
    /\ last_print = "none"
    /\ run = [open |-> FALSE, id |-> None, builds |-> 0]
    /\ sent_ids = {}

\* --------------------------------------------------------------- main loop
\* get_closest_flight_data returned None: print, sleep(5), continue
PollNoData ==
    /\ pc = "poll"
    /\ last_print' = "no_data"
    /\ UNCHANGED <<pc, current_flight_id, data, locals, canvas, buffer_len,
                   cls_calls, add_frame_calls, render_calls, rendered, exc,
                   run, sent_ids>>

\* the fetched record has the remembered identifier: print, sleep, continue
PollSameFlight(d) ==
    /\ pc = "poll"
    /\ PyEq(d.icao24, current_flight_id)
    /\ last_print' = "still_tracking"
    /\ run' = NextRun(d.icao24, FALSE)
    /\ UNCHANGED <<pc, current_flight_id, data, locals, canvas, buffer_len,
                   cls_calls, add_frame_calls, render_calls, rendered, exc,
                   sent_ids>>

\* the fetched record has another identifier: remember it and enter the
\* build, up to the head of the frame loop
PollNewFlight(d) ==
    /\ pc = "poll"
    /\ ~PyEq(d.icao24, current_flight_id)
    /\ current_flight_id' = d.icao24
    /\ last_print' = "new_flight"
    /\ run' = NextRun(d.icao24, TRUE)
    /\ data' = d
    /\ locals' = Prologue(d)
    /\ pc' = "build"
    /\ cls_calls' = 0
    /\ add_frame_calls' = 0
    /\ render_calls' = 0
    /\ UNCHANGED <<canvas, buffer_len, rendered, exc, sent_ids>>

\* ------------------------------------------------------------ the frame loop
\* one iteration: cls, top section, icon, info page, add_frame
DrawFrame ==
    /\ pc = "build"
    /\ InLoop(locals.frame_idx)
    /\ canvas' = FrameOf(locals)
    /\ cls_calls' = cls_calls + 1
    /\ add_frame_calls' =
          add_frame_calls + (IF NeedsAddFrame(locals.frame_idx) THEN 1 ELSE 0)
    /\ buffer_len' =
          buffer_len + (IF NeedsAddFrame(locals.frame_idx) THEN 1 ELSE 0)
    /\ locals' = [locals EXCEPT !.frame_idx = @ + 1]
    /\ pc' = IF InLoop(locals.frame_idx + 1) THEN "build" ELSE "render"
    /\ UNCHANGED <<current_flight_id, data, render_calls, rendered, exc,
                   last_print, run, sent_ids>>

DrawSteps == {"top", "icon", "info"}

\* a pizzoo draw call of the iteration raises: the exception leaves the
\* function and main
DrawFrameFails(step) ==
    /\ pc = "build"
    /\ InLoop(locals.frame_idx)
    /\ cls_calls' = cls_calls + 1
    /\ canvas' = Blank
    /\ exc' = [kind |-> "draw", frame |-> locals.frame_idx, step |-> step]
    /\ pc' = OnDrawError
    /\ locals' = NoLocals
    /\ data' = NoData
    /\ UNCHANGED <<current_flight_id, buffer_len, add_frame_calls,
                   render_calls, rendered, last_print, run, sent_ids>>

\* print, pizzoo.render(frame_speed=ANIMATION_FRAME_SPEED), print, sleep
\* (the build relies on pizzoo starting every build with a buffer of one
\* frame: "Frame 0 is created automatically by pizzoo")
Render ==
    /\ pc = "render"
    /\ render_calls' = render_calls + 1
    /\ rendered' = [frames |-> buffer_len,
                    frame_speed |-> ANIMATION_FRAME_SPEED]
    /\ last_print' = "animation_playing"
    /\ canvas' = Blank
    /\ buffer_len' = 1
    /\ locals' = NoLocals
    /\ data' = NoData
    /\ pc' = "poll"
    /\ sent_ids' = sent_ids \cup {current_flight_id}
    /\ UNCHANGED <<current_flight_id, cls_calls, add_frame_calls, exc, run>>

\* pizzoo.render raises (the device is unreachable)
RenderFails ==
    /\ pc = "render"
    /\ render_calls' = render_calls + 1
    /\ rendered' = [frames |-> buffer_len,
                    frame_speed |-> ANIMATION_FRAME_SPEED]
    /\ last_print' = "sending"
    /\ exc' = [kind |-> "transport"]
    /\ pc' = OnRenderError
    /\ locals' = NoLocals
    /\ data' = NoData
    /\ UNCHANGED <<current_flight_id, canvas, buffer_len, cls_calls,
                   add_frame_calls, run, sent_ids>>

Next ==
    \/ PollNoData
    \/ \E d \in FetchedRecords : PollSameFlight(d)
    \/ \E d \in FetchedRecords : PollNewFlight(d)
    \/ DrawFrame
    \/ \E step \in DrawSteps : DrawFrameFails(step)
    \/ Render
    \/ RenderFails

Spec == Init /\ [][Next]_vars

\* ------------------------------------------- the build called on any dict
InitBuild ==
    /\ pc = "build"
    /\ current_flight_id = None
    /\ data \in AllDicts
    /\ locals = Prologue(data)
    /\ canvas = Blank
    /\ buffer_len = 1
    /\ cls_calls = 0
    /\ add_frame_calls = 0
    /\ render_calls = 0
    /\ rendered = NotRendered
    /\ exc = NoExc
    /\ last_print = "none"
    /\ run = [open |-> FALSE, id |-> None, builds |-> 0]
    /\ sent_ids = {}

NextBuild ==
    \/ DrawFrame
    \/ \E step \in DrawSteps : DrawFrameFails(step)
    \/ Render
    \/ RenderFails

SpecBuild == InitBuild /\ [][NextBuild]_vars

\* ------------------------------- the text measurement functions on their own
MeasureInputs ==
    {[scope |-> "measure", rect_width |-> w, text |-> LongText(n)] :
        w \in 0..MaxWidth, n \in 0..(MaxTextLen + 3)}

InitMeasure ==
    /\ pc = "call"
    /\ locals \in MeasureInputs
    /\ current_flight_id = None
    /\ data = NoData
    /\ canvas = Blank
    /\ buffer_len = 1
    /\ cls_calls = 0
    /\ add_frame_calls = 0
    /\ render_calls = 0
    /\ rendered = NotRendered
    /\ exc = NoExc
    /\ last_print = "none"
    /\ run = [open |-> FALSE, id |-> None, builds |-> 0]
    /\ sent_ids = {}

\* _measure_text_width(text)
CallMeasureTextWidth ==
    /\ pc = "call"
    /\ locals' = [scope |-> "measure", rect_width |-> locals.rect_width,
                  text |-> locals.text,
                  text_width |-> _measure_text_width(locals.text)]
    /\ pc' = "measured"
    /\ UNCHANGED <<current_flight_id, data, canvas, buffer_len, cls_calls,
                   add_frame_calls, render_calls, rendered, exc, last_print,
                   run, sent_ids>>

\* _center_x(rect_width, text)
CallCenterX ==
    /\ pc = "measured"
    /\ locals' = [scope |-> "measure", rect_width |-> locals.rect_width,
                  text |-> locals.text, text_width |-> locals.text_width,
                  x |-> _center_x(locals.rect_width, locals.text)]
    /\ pc' = "centered"
    /\ UNCHANGED <<current_flight_id, data, canvas, buffer_len, cls_calls,
                   add_frame_calls, render_calls, rendered, exc, last_print,
                   run, sent_ids>>

NextMeasure ==
    \/ CallMeasureTextWidth
    \/ CallCenterX

SpecMeasure == InitMeasure /\ [][NextMeasure]_vars

\* ================================================================ claims
\* helpers of the statements below
Shown == locals.frame_idx - 1

\* a frame has been drawn and is on the canvas
FrameDrawn == pc \in {"build", "render"} /\ locals.frame_idx >= 1

LabelsAt(c, y) ==
    {t.text : t \in {u \in c.texts : u.y = y /\ u.color = COLOR_LABEL}}

ValuesAt(c, y) ==
    {t.text : t \in {u \in c.texts : u.y = y /\ u.color = COLOR_TEXT}}

IsAbsent(x) == x.tag \in {"missing", "null"}

DigitValue ==
    [c \in {"0", "1", "2", "3", "4", "5", "6", "7", "8", "9"} |->
        CASE c = "0" -> 0 [] c = "1" -> 1 [] c = "2" -> 2 [] c = "3" -> 3
          [] c = "4" -> 4 [] c = "5" -> 5 [] c = "6" -> 6 [] c = "7" -> 7
          [] c = "8" -> 8 [] c = "9" -> 9]

IsDigits(s) == \A i \in 1..Len(s) : s[i] \in DOMAIN DigitValue

RECURSIVE Decode(_)
Decode(s) == IF s = <<>> THEN 0
             ELSE 10 * Decode(SubSeq(s, 1, Len(s) - 1)) + DigitValue[s[Len(s)]]

\* C1: every build performs 27 clear-and-draw iterations with frame indices
\* 0..26 in increasing order, calls add_frame exactly 26 times (after every
\* frame except the last) and calls render exactly once, after the 27th frame,
\* with the configured frame duration; nothing is drawn or added after render.
C1_FrameCalls ==
    /\ pc = "build" =>
          /\ locals.frame_idx \in 0..26
          /\ cls_calls = locals.frame_idx
          /\ add_frame_calls = locals.frame_idx
          /\ render_calls = 0
    /\ pc = "render" =>
          /\ locals.frame_idx = 27
          /\ cls_calls = 27
          /\ add_frame_calls = 26
          /\ render_calls = 0
    /\ render_calls >= 1 =>
          /\ render_calls = 1
          /\ cls_calls = 27
          /\ add_frame_calls = 26
          /\ rendered.frames = 27
          /\ rendered.frame_speed = ANIMATION_FRAME_SPEED

C1_Witness ==
    /\ pc = "poll"
    /\ last_print = "animation_playing"
    /\ render_calls = 1
    /\ cls_calls = 27
    /\ add_frame_calls = 26

\* C2: frame i shows page min(i // 9, 2) of [(FLT, ALT), (TYPE, REG),
\* (SPD, HDG)]: frames 0..8 the first page, 9..17 the second, 18..26 the
\* third, with the values of the page list computed before frame 0.
C2_PageOfFrame ==
    FrameDrawn =>
        LET p == IF Shown <= 8 THEN 1 ELSE IF Shown <= 17 THEN 2 ELSE 3
            labels == << <<<<"F", "L", "T">>, <<"A", "L", "T">>>>,
                         <<<<"T", "Y", "P", "E">>, <<"R", "E", "G">>>>,
                         <<<<"S", "P", "D">>, <<"H", "D", "G">>>> >>
        IN /\ Shown \in 0..26
           /\ locals.info_pages = InfoPages(data)
           /\ LabelsAt(canvas, 34) = {labels[p][1]}
           /\ LabelsAt(canvas, 50) = {labels[p][2]}
           /\ ValuesAt(canvas, 34) = {locals.info_pages[p][1][2]}
           /\ ValuesAt(canvas, 50) = {locals.info_pages[p][2][2]}

C2_Witness ==
    /\ FrameDrawn
    /\ Shown = 9
    /\ LabelsAt(canvas, 34) = {<<"T", "Y", "P", "E">>}
    /\ ValuesAt(canvas, 50) = {<<"D", "-", "A", "B", "C", "D">>}

\* C3: on every frame of the third page the SPD value is "---KT" when the
\* record's ground speed is absent or null, and "<v>KT" when it is v.
C3_SpeedPlaceholder ==
    (FrameDrawn /\ Shown >= 18) =>
        \A t \in ValuesAt(canvas, 34) :
            IF IsAbsent(data.ground_speed)
            THEN t = <<"-", "-", "-", "K", "T">>
            ELSE /\ Len(t) >= 3
                 /\ SubSeq(t, Len(t) - 1, Len(t)) = <<"K", "T">>
                 /\ IsDigits(SubSeq(t, 1, Len(t) - 2))
                 /\ Decode(SubSeq(t, 1, Len(t) - 2)) = data.ground_speed.v

\* C4: a text field that is null or missing is shown as its placeholder in
\* every frame: "---" for origin and destination, "----" for flight number
\* and aircraft type, "------" for registration.
C4_TextPlaceholders ==
    FrameDrawn =>
        /\ IsAbsent(data.origin) =>
              \E t \in canvas.texts :
                  t.y = 20 /\ t.x = 2 /\ t.text = <<"-", "-", "-">>
        /\ IsAbsent(data.destination) =>
              \E t \in canvas.texts :
                  t.y = 20 /\ t.x = 45 /\ t.text = <<"-", "-", "-">>
        /\ (IsAbsent(data.flight_number) /\ Shown <= 8) =>
              ValuesAt(canvas, 34) = {<<"-", "-", "-", "-">>}
        /\ (IsAbsent(data.aircraft_type_icao) /\ Shown \in 9..17) =>
              ValuesAt(canvas, 34) = {<<"-", "-", "-", "-">>}
        /\ (IsAbsent(data.registration) /\ Shown \in 9..17) =>
              ValuesAt(canvas, 50) = {<<"-", "-", "-", "-", "-", "-">>}

\* C5: in every run of polls that return the same identifier exactly one
\* build is performed (polls without data neither build nor end the run).
C5_OneBuildPerRun == run.open => run.builds = 1

\* C6: after a failed draw step render is not called, and every frame set
\* handed to render has the 27 frames of a complete build.
C6_NoPartialAnimation ==
    /\ exc.kind = "draw" => render_calls = 0
    /\ rendered # NotRendered => rendered.frames = 27

C6_Witness ==
    /\ exc.kind = "draw"
    /\ exc.frame = 13
    /\ cls_calls = 14
    /\ rendered.frames = 27

\* C7: a failed build or a failed send does not end the process: the poll
\* loop keeps running.
C7_FailureNotFatal == exc.kind \in {"draw", "transport"} => pc # "terminated"

\* C8: every text drawn in any frame starts at x >= 0 and ends at
\* x + (6 * len - 1) <= 64.
C8_TextFits ==
    FrameDrawn =>
        \A t \in canvas.texts :
            /\ t.x >= 0
            /\ t.x + (6 * Len(t.text) - 1) <= 64

\* C9: the ALT value is "GND" when the altitude is absent, null or below
\* 1000 ft, and otherwise "FL" followed by altitude // 100 zero-padded to at
\* least 3 digits (3400 -> FL034, 3500 -> FL035, 10000 -> FL100).
C9_FlightLevel ==
    (FrameDrawn /\ Shown <= 8) =>
        /\ ValuesAt(canvas, 50) # {}
        /\ \A t \in ValuesAt(canvas, 50) :
              IF IsAbsent(data.altitude) \/ data.altitude.v < 1000
              THEN t = <<"G", "N", "D">>
              ELSE LET ds == SubSeq(t, 3, Len(t))
                   IN /\ SubSeq(t, 1, 2) = <<"F", "L">>
                      /\ Len(ds) >= 3
                      /\ IsDigits(ds)
                      /\ Decode(ds) = data.altitude.v \div 100
                      /\ (Len(ds) > 3 => ds[1] # "0")
                      /\ (data.altitude.v = 3400 =>
                            t = <<"F", "L", "0", "3", "4">>)
                      /\ (data.altitude.v = 3500 =>
                            t = <<"F", "L", "0", "3", "5">>)
                      /\ (data.altitude.v = 10000 =>
                            t = <<"F", "L", "1", "0", "0">>)

C9_Witness ==
    /\ FrameDrawn
    /\ Shown = 0
    /\ data.altitude = Missing
    /\ ValuesAt(canvas, 50) = {<<"G", "N", "D">>}

\* C10: the HDG value is "---" exactly when the heading is absent or null,
\* and otherwise the heading zero-padded to 3 digits; a heading of 0 is "000".
C10_Heading ==
    (FrameDrawn /\ Shown >= 18) =>
        /\ ValuesAt(canvas, 50) # {}
        /\ \A t \in ValuesAt(canvas, 50) :
              /\ (t = <<"-", "-", "-">>) <=> IsAbsent(data.heading)
              /\ ~IsAbsent(data.heading) =>
                    /\ Len(t) = 3
                    /\ IsDigits(t)
                    /\ Decode(t) = data.heading.v
                    /\ (data.heading.v = 0 => t = <<"0", "0", "0">>)
                    /\ (data.heading.v = 7 => t = <<"0", "0", "7">>)

C10_Witness ==
    /\ FrameDrawn
    /\ Shown = 18
    /\ PyEq(data.heading, Val(0))
    /\ ValuesAt(canvas, 50) = {<<"0", "0", "0">>}

\* the pixels covered by the rectangles of the icon colour
IconPixels(c) ==
    UNION {{<<px, py>> : px \in r.x..(r.x + r.width - 1),
                         py \in r.y..(r.y + r.height - 1)} :
            r \in {q \in c.rects : q.color = COLOR_PLANE}}

\* the 5x5 sprite anchored at (x, y): fuselage, wing and tail
Sprite(x, y) ==
    {<<px, y + 2>> : px \in x..(x + 4)}
        \cup {<<x + 2, py>> : py \in y..(y + 4)}
        \cup {<<x, py>> : py \in (y + 1)..(y + 3)}

VisibleCols(c) == {p[1] : p \in IconPixels(c)}

\* C11: in frame i the icon is anchored at x = 16 + i and the icon pixels on
\* the canvas are exactly the sprite pixels whose column is in [21, 43).
C11_IconClipped ==
    FrameDrawn =>
        /\ IconPixels(canvas) =
              {p \in Sprite(16 + Shown, 24) : 21 <= p[1] /\ p[1] < 43}
        /\ \A p \in IconPixels(canvas) : p[1] >= 21 /\ p[1] < 43

C11_Witness ==
    /\ FrameDrawn
    /\ Shown = 24
    /\ IconPixels(canvas) =
          {<<40, 26>>, <<41, 26>>, <<42, 26>>,
           <<40, 25>>, <<40, 27>>,
           <<42, 24>>, <<42, 25>>, <<42, 27>>, <<42, 28>>}

\* C12: no icon pixel is visible in frame 0, the icon is entirely inside the
\* window in some frames, and the number of visible icon columns changes by
\* at most one between cyclically consecutive frames, the wrap from frame 26
\* to frame 0 included.
C12_State ==
    FrameDrawn =>
        LET n == Cardinality(VisibleCols(canvas))
        IN /\ Shown = 0 => n = 0
           /\ Shown = 26 => n <= 1
           /\ Shown \in 5..22 => n = 5

C12_Step ==
    (FrameDrawn /\ FrameDrawn') =>
        LET n == Cardinality(VisibleCols(canvas))
            m == Cardinality(VisibleCols(canvas'))
        IN m - n \in {-1, 0, 1}

C12_SmoothCycle == [](C12_State) /\ [][C12_Step]_vars

C12_Witness ==
    /\ FrameDrawn
    /\ Shown = 26
    /\ VisibleCols(canvas) = {42}

\* C13: _measure_text_width(t) = max(1, 6 * len(t) - 1) and
\* _center_x(w, t) = max(0, floor((w - _measure_text_width(t)) / 2)), which
\* is never negative (_center_x(64, "AB") = 26; 11 characters in 64 give 0).
C13_Centering ==
    /\ pc \in {"measured", "centered"} =>
          /\ locals.text_width >= 1
          /\ locals.text_width >= 6 * Len(locals.text) - 1
          /\ locals.text_width \in {1, 6 * Len(locals.text) - 1}
          /\ (Len(locals.text) = 0 => locals.text_width = 1)
          /\ (Len(locals.text) = 2 => locals.text_width = 11)
    /\ pc = "centered" =>
          LET free == locals.rect_width - locals.text_width
          IN /\ locals.x >= 0
             /\ (free >= 0 => 2 * locals.x <= free /\ free <= 2 * locals.x + 1)
             /\ (free < 0 => locals.x = 0)
             /\ (locals.rect_width = 64 /\ Len(locals.text) = 2 =>
                    locals.x = 26)
             /\ (locals.rect_width = 64 /\ Len(locals.text) = 11 =>
                    locals.x = 0)

C13_Witness ==
    /\ pc = "centered"
    /\ locals.rect_width = 64
    /\ Len(locals.text) = 11
    /\ locals.text_width = 65
    /\ locals.x = 0

\* C14: whenever the poll loop takes the "still tracking, animation
\* unchanged" branch, an animation for that identifier has been built and
\* sent before; so the first non-empty record always leads to a build, also
\* when its icao24 is null.
C14_TrackedWasSent ==
    last_print = "still_tracking" =>
        \E i \in sent_ids : PyEq(i, current_flight_id)

====
